---- MODULE Spec2Model ----
(***************************************************************************)
(* Object-storage blocks of backend/blocks/data.py: StoreObjectInS3Block,  *)
(* RetrieveObjectFromS3Block, DeleteObjectFromS3Block, CreateBucketBlock   *)
(* and DeleteBucketBlock, with their MinIO adapters.                       *)
(*                                                                         *)
(* A block's run() is a generator; one action models one whole call of     *)
(* run(), from the provider test to the end of the generator (or to the    *)
(* exception that ends it), and records what the call did in `last`.       *)
(* The S3 server and the file system are the environment: the buckets, the *)
(* objects, and the file <cwd>/temp that fput_object uploads.              *)
(*                                                                         *)
(* Not modelled: the __init__ bodies (they only pass display metadata; as  *)
(* written they name StoreObjectInS3, RetrieveObjectFromS3, ... which are   *)
(* not defined), the resolution of `from Minio import Minio`, and the      *)
(* endpoint / access_key / secret_key strings, which are handed unchanged  *)
(* to the client and show here only as the server's AccessDenied answer.   *)
(***************************************************************************)
EXTENDS Integers, Sequences, FiniteSets, TLC

VARIABLES buckets, objects, tempFile, last

vars == <<buckets, objects, tempFile, last>>

----------------------------------------------------------------------------
(* Bounds and input sets *)

NumKeys == 2

KeyPool == <<"k1", "k2", "k3", "k4">>

Keys == {KeyPool[i] : i \in 1..NumKeys}

Buckets == {"b1"}

Contents == {"P1", "P2"}

\* a field an operation's Input schema does not have
NA == "n/a"

\* what a request may carry in a str field: a name, or the empty string
KeyInputs == Keys \cup {""}

BucketInputs == Buckets \cup {""}

----------------------------------------------------------------------------
(* Python values *)

\* the value None, where an object is expected
PyNone == [kind |-> "NoneType", data |-> ""]

\* a payload value handed to the block as Input.obj
Payload(d) == [kind |-> "payload", data |-> d]

\* what client.get_object returns: the HTTP response that carries the data
HTTPResponse(d) == [kind |-> "HTTPResponse", data |-> d]

\* Python truth of a value used in `if obj:`
Truthy(v) == v.kind # "NoneType"

----------------------------------------------------------------------------
(* StorageProvider *)

MINIO == "minio"

\* the member that is commented out, "Not implemented yet"
AWS == "aws"

\* a provider name that is no member and is not reserved either
UNKNOWN == "gcs"

ProviderInputs == {MINIO, AWS, UNKNOWN}

\* the set of providers a request may name: the active and the reserved one
KnownProviders == {MINIO, AWS}

----------------------------------------------------------------------------
(* The S3 server and the staged file *)

NoObject == "<no object>"

NoFile == "<no file>"

\* conditions of one client call that do not depend on the stored data
Faults == {"none", "AccessDenied", "network"}

\* str(e) of an S3Error with the given code
str_S3Error(code) ==
  CASE code = "AccessDenied"  -> "S3 operation failed; code: AccessDenied"
    [] code = "NoSuchBucket"  -> "S3 operation failed; code: NoSuchBucket"
    [] code = "NoSuchKey"     -> "S3 operation failed; code: NoSuchKey"
    [] code = "BucketNotEmpty" -> "S3 operation failed; code: BucketNotEmpty"
    [] OTHER -> "S3 operation failed; code: BucketAlreadyOwnedByYou"

S3Messages ==
  {str_S3Error(c) : c \in {"AccessDenied", "NoSuchBucket", "NoSuchKey",
                           "BucketNotEmpty", "BucketAlreadyOwnedByYou"}}

\* the outcome of one client call: the exception it raises ("" for none), the
\* S3 error code, the value it returns and the server's state after it
Outcome(exc, code, value, bs, os) ==
  [exc |-> exc, code |-> code, value |-> value, buckets |-> bs, objects |-> os]

BucketEmpty(b, os) == \A k \in Keys : os[<<b, k>>] = NoObject

\* what every client call does first: the transport and the credentials
Transport(fault, bs, os, then) ==
  IF fault = "network" THEN Outcome("MaxRetryError", "", PyNone, bs, os)
  ELSE IF fault = "AccessDenied" THEN Outcome("S3Error", "AccessDenied", PyNone, bs, os)
  ELSE then

\* client.fput_object(bucket, key, file_path): uploads the file's content
fput_object(b, k, file, fault, bs, os) ==
  IF file = NoFile THEN Outcome("OSError", "", PyNone, bs, os)
  ELSE Transport(fault, bs, os,
         IF b \notin bs THEN Outcome("S3Error", "NoSuchBucket", PyNone, bs, os)
         ELSE Outcome("", "", PyNone, bs, [os EXCEPT ![<<b, k>>] = file]))

\* client.get_object(bucket, key)
get_object(b, k, fault, bs, os) ==
  Transport(fault, bs, os,
    IF b \notin bs THEN Outcome("S3Error", "NoSuchBucket", PyNone, bs, os)
    ELSE IF os[<<b, k>>] = NoObject THEN Outcome("S3Error", "NoSuchKey", PyNone, bs, os)
    ELSE Outcome("", "", HTTPResponse(os[<<b, k>>]), bs, os))

\* client.make_bucket(bucket)
make_bucket(b, fault, bs, os) ==
  Transport(fault, bs, os,
    IF b \in bs THEN Outcome("S3Error", "BucketAlreadyOwnedByYou", PyNone, bs, os)
    ELSE Outcome("", "", PyNone, bs \cup {b}, os))

\* client.remove_bucket(bucket)
remove_bucket(b, fault, bs, os) ==
  Transport(fault, bs, os,
    IF b \notin bs THEN Outcome("S3Error", "NoSuchBucket", PyNone, bs, os)
    ELSE IF ~BucketEmpty(b, os) THEN Outcome("S3Error", "BucketNotEmpty", PyNone, bs, os)
    ELSE Outcome("", "", PyNone, bs \ {b}, os))

----------------------------------------------------------------------------
(* The adapters *)

NoReturn == [obj |-> PyNone, success |-> FALSE, error |-> NA]

\* what a call of an adapter did: the exception that left it ("" for none),
\* whether it returned, the tuple it returned, and the server's state after it
Returned(obj, success, error, c) ==
  [raised |-> "", returned |-> TRUE,
   ret |-> [obj |-> obj, success |-> success, error |-> error],
   buckets |-> c.buckets, objects |-> c.objects]

Propagated(c) ==
  [raised |-> c.exc, returned |-> FALSE, ret |-> NoReturn,
   buckets |-> c.buckets, objects |-> c.objects]

\* pwd + "/temp": the one file every store uploads, whatever obj is
source_file_path == tempFile

\* store_in_s3_MINIO whose except branch leaves success as it was set before
store_in_s3_MINIO_keeps_success(key, obj, bucket, fault, bs, os) ==
  LET c == fput_object(bucket, key, source_file_path, fault, bs, os)
  IN  IF c.exc = "" THEN Returned(PyNone, TRUE, "", c)
      ELSE IF c.exc = "S3Error" THEN Returned(PyNone, TRUE, str_S3Error(c.code), c)
      ELSE Propagated(c)

store_in_s3_MINIO(key, obj, bucket, fault, bs, os) ==
  LET c == fput_object(bucket, key, source_file_path, fault, bs, os)
  IN  IF c.exc = "" THEN Returned(PyNone, TRUE, "", c)
      ELSE IF c.exc = "S3Error" THEN Returned(PyNone, FALSE, str_S3Error(c.code), c)
      ELSE Propagated(c)

retrieve_from_s3_MINIO(key, bucket, fault, bs, os) ==
  LET c == get_object(bucket, key, fault, bs, os)
  IN  IF c.exc = "" THEN Returned(c.value, TRUE, "", c)
      ELSE IF c.exc = "S3Error" THEN Returned(PyNone, FALSE, str_S3Error(c.code), c)
      ELSE Propagated(c)

create_bucket_MINIO(bucket, fault, bs, os) ==
  LET c == make_bucket(bucket, fault, bs, os)
  IN  IF c.exc = "" THEN Returned(PyNone, TRUE, "", c)
      ELSE IF c.exc = "S3Error" THEN Returned(PyNone, FALSE, str_S3Error(c.code), c)
      ELSE Propagated(c)

delete_bucket_MINIO(bucket, fault, bs, os) ==
  LET c == remove_bucket(bucket, fault, bs, os)
  IN  IF c.exc = "" THEN Returned(PyNone, TRUE, "", c)
      ELSE IF c.exc = "S3Error" THEN Returned(PyNone, FALSE, str_S3Error(c.code), c)
      ELSE Propagated(c)

----------------------------------------------------------------------------
(* run() of each block: the values it yields, in order *)

NotImplementedMsg == "Provider not implemented yet."

\* what a call of run() did: the values yielded, the exception that ended the
\* generator ("" for none), the adapter calls made and the last adapter result
Ran(out, a, calls) ==
  [out |-> out, raised |-> a.raised, adapterCalls |-> calls,
   returned |-> a.returned, ret |-> a.ret,
   buckets |-> a.buckets, objects |-> a.objects]

\* a run() that ends without an adapter having run
NoAdapter(out, raised, bs, os) ==
  [out |-> out, raised |-> raised, adapterCalls |-> 0,
   returned |-> FALSE, ret |-> NoReturn, buckets |-> bs, objects |-> os]

StoreObjectInS3Block_run(input_data, fault, bs, os) ==
  IF input_data.provider = MINIO
  THEN LET a == store_in_s3_MINIO(input_data.key, input_data.obj,
                                  input_data.bucket, fault, bs, os)
       IN  IF a.returned
           THEN Ran(<< <<"success", a.ret.success>>, <<"error", a.ret.error>> >>, a, 1)
           ELSE Ran(<< >>, a, 1)
  ELSE NoAdapter(<< <<"success", FALSE>>, <<"error", NotImplementedMsg>> >>, "", bs, os)

RetrieveObjectFromS3Block_run(input_data, fault, bs, os) ==
  IF input_data.provider = MINIO
  THEN LET a == retrieve_from_s3_MINIO(input_data.key, input_data.bucket, fault, bs, os)
       IN  IF a.returned
           THEN Ran((IF Truthy(a.ret.obj) THEN << <<"obj", a.ret.obj>> >> ELSE << >>)
                    \o << <<"success", a.ret.success>>, <<"error", a.ret.error>> >>, a, 1)
           ELSE Ran(<< >>, a, 1)
  ELSE NoAdapter(<< <<"obj", PyNone>>, <<"success", FALSE>>,
                    <<"error", NotImplementedMsg>> >>, "", bs, os)

\* the adapter takes five arguments and is called with two: the call raises
\* TypeError before the adapter's body runs
DeleteObjectFromS3Block_run(input_data, bs, os) ==
  IF input_data.provider = MINIO
  THEN NoAdapter(<< >>, "TypeError", bs, os)
  ELSE NoAdapter(<< <<"success", FALSE>>, <<"error", NotImplementedMsg>> >>, "", bs, os)

CreateBucketBlock_run(input_data, fault, bs, os) ==
  IF input_data.provider = MINIO
  THEN LET a == create_bucket_MINIO(input_data.bucket, fault, bs, os)
       IN  IF a.returned
           THEN Ran(<< <<"success", a.ret.success>>, <<"error", a.ret.error>> >>, a, 1)
           ELSE Ran(<< >>, a, 1)
  ELSE NoAdapter(<< <<"success", FALSE>>, <<"error", NotImplementedMsg>> >>, "", bs, os)

\* DeleteBucketBlock defines no run(): the call ends in the base class, with
\* nothing yielded and no adapter called, whatever the provider
DeleteBucketBlock_run(input_data, bs, os) ==
  NoAdapter(<< >>, "NotImplementedError", bs, os)

----------------------------------------------------------------------------
(* Requests *)

Operations == {"store", "retrieve", "delete_object", "create_bucket", "delete_bucket"}

Payloads == {Payload(d) : d \in Contents}

StoreRequests ==
  [key : KeyInputs, obj : Payloads, provider : ProviderInputs, bucket : BucketInputs]

ObjectRequests ==
  [key : KeyInputs, obj : {PyNone}, provider : ProviderInputs, bucket : BucketInputs]

BucketRequests ==
  [key : {NA}, obj : {PyNone}, provider : ProviderInputs, bucket : BucketInputs]

\* the check of a request against the operation's Input schema, made before
\* run(): every required str field is non-empty and the provider is a known one
\* a validation that checks the provider but lets empty str fields through
Validate_present_only(req) ==
  /\ req.provider \in KnownProviders

Validate(req) ==
  /\ req.key # ""
  /\ req.bucket # ""
  /\ req.provider \in KnownProviders

----------------------------------------------------------------------------
(* State machine *)

NoCall ==
  [op |-> "none", req |-> [key |-> NA, obj |-> PyNone, provider |-> MINIO, bucket |-> NA],
   rejected |-> FALSE, fault |-> "none", out |-> << >>, raised |-> "",
   adapterCalls |-> 0, returned |-> FALSE, ret |-> NoReturn]

Init ==
  /\ buckets = {}
  /\ objects = [bk \in Buckets \X Keys |-> NoObject]
  /\ tempFile \in Contents \cup {NoFile}
  /\ last = NoCall

\* the record of a call that ran, and its effect on the server
Finish(op, req, fault, r) ==
  /\ last' = [op |-> op, req |-> req, rejected |-> FALSE, fault |-> fault,
              out |-> r.out, raised |-> r.raised, adapterCalls |-> r.adapterCalls,
              returned |-> r.returned, ret |-> r.ret]
  /\ buckets' = r.buckets
  /\ objects' = r.objects
  /\ UNCHANGED tempFile

\* the record of a call that validation rejected: run() is never entered
Reject(op, req) ==
  /\ last' = [NoCall EXCEPT !.op = op, !.req = req, !.rejected = TRUE]
  /\ UNCHANGED <<buckets, objects, tempFile>>

StoreObject(req, fault) ==
  IF Validate(req)
  THEN Finish("store", req, fault, StoreObjectInS3Block_run(req, fault, buckets, objects))
  ELSE Reject("store", req)

RetrieveObject(req, fault) ==
  IF Validate(req)
  THEN Finish("retrieve", req, fault,
              RetrieveObjectFromS3Block_run(req, fault, buckets, objects))
  ELSE Reject("retrieve", req)

DeleteObject(req) ==
  IF Validate(req)
  THEN Finish("delete_object", req, "none",
              DeleteObjectFromS3Block_run(req, buckets, objects))
  ELSE Reject("delete_object", req)

CreateBucket(req, fault) ==
  IF Validate(req)
  THEN Finish("create_bucket", req, fault, CreateBucketBlock_run(req, fault, buckets, objects))
  ELSE Reject("create_bucket", req)

DeleteBucket(req) ==
  IF Validate(req)
  THEN Finish("delete_bucket", req, "none", DeleteBucketBlock_run(req, buckets, objects))
  ELSE Reject("delete_bucket", req)

\* the static method DeleteBucketBlock._delete_bucket_MINIO called on its own,
\* the only way it runs
DeleteBucketAdapterCall(bucket, fault) ==
  LET a == delete_bucket_MINIO(bucket, fault, buckets, objects)
  IN  Finish("_delete_bucket_MINIO",
             [key |-> NA, obj |-> PyNone, provider |-> MINIO, bucket |-> bucket],
             fault, Ran(<< >>, a, 1))

\* the environment writes or removes the file <cwd>/temp
WriteTemp(c) ==
  /\ c # tempFile
  /\ tempFile' = c
  /\ UNCHANGED <<buckets, objects, last>>

Next ==
  \/ \E req \in StoreRequests, fault \in Faults : StoreObject(req, fault)
  \/ \E req \in ObjectRequests, fault \in Faults : RetrieveObject(req, fault)
  \/ \E req \in ObjectRequests : DeleteObject(req)
  \/ \E req \in BucketRequests, fault \in Faults : CreateBucket(req, fault)
  \/ \E req \in BucketRequests : DeleteBucket(req)
  \/ \E b \in Buckets, fault \in Faults : DeleteBucketAdapterCall(b, fault)
  \/ \E c \in Contents \cup {NoFile} : WriteTemp(c)

Spec == Init /\ [][Next]_vars

----------------------------------------------------------------------------
(* Properties *)

\* the values yielded under a name, and how many times the name was yielded
Values(out, name) == {out[i][2] : i \in {j \in DOMAIN out : out[j][1] = name}}

Count(out, name) == Cardinality({j \in DOMAIN out : out[j][1] = name})

\* the last call was one of the five operations and passed validation
Accepted == last.op \in Operations /\ ~last.rejected

WellFormed(out) ==
  /\ Count(out, "success") = 1
  /\ Count(out, "error") = 1
  /\ \A s \in Values(out, "success"), e \in Values(out, "error") : (s = TRUE) <=> (e = "")

\* C1: whenever an operation emits a success value and an error value, success
\* is true exactly when error is the empty string.
C1_SuccessIffNoError ==
  last.op \in Operations =>
    \A s \in Values(last.out, "success"), e \in Values(last.out, "error") :
      (s = TRUE) <=> (e = "")

\* an adapter caught an S3Error and the operation emitted the failed result
C1_Witness ==
  /\ last.op = "store"
  /\ last.adapterCalls = 1
  /\ last.out = << <<"success", FALSE>>, <<"error", str_S3Error("NoSuchBucket")>> >>

\* C2: an accepted request for the reserved provider yields success = false and
\* error = "Provider not implemented yet.", and no adapter is invoked.
C2_NotImplemented ==
  (Accepted /\ last.req.provider = AWS) =>
    /\ Values(last.out, "success") = {FALSE}
    /\ Values(last.out, "error") = {NotImplementedMsg}
    /\ last.adapterCalls = 0

\* C3: every accepted call of an operation yields exactly one success value and
\* exactly one error value.
C3_ExactlyOneEach ==
  Accepted => (Count(last.out, "success") = 1 /\ Count(last.out, "error") = 1)

\* C4: retrieve yields an obj value only when the retrieval succeeded, and the
\* value yielded is never None.
C4_PayloadOnlyOnSuccess ==
  (Accepted /\ last.op = "retrieve") =>
    \A v \in Values(last.out, "obj") :
      Truthy(v) /\ Values(last.out, "success") = {TRUE}

\* C5: when the server or the network fails an adapter's client call, the
\* adapter returns (False, message) and no exception leaves it.
C5_BackendFailureCaught ==
  (last.adapterCalls > 0 /\ last.fault # "none" /\ last.raised # "OSError") =>
    /\ last.raised = ""
    /\ last.returned
    /\ last.ret.success = FALSE
    /\ last.ret.error \in S3Messages

\* C6: a retrieve of bucket/key that directly follows a successful store of
\* payload P under that bucket/key yields success = true and the data of P.
C6_RoundTrip ==
  [][(/\ last.op = "store" /\ TRUE \in Values(last.out, "success")
      /\ last'.op = "retrieve" /\ ~last'.rejected
      /\ last'.req.provider = MINIO /\ last'.fault = "none"
      /\ last'.req.key = last.req.key /\ last'.req.bucket = last.req.bucket)
     => (/\ Values(last'.out, "success") = {TRUE}
         /\ \E v \in Values(last'.out, "obj") : v.data = last.req.obj.data)]_vars

C8_DeleteObjectWellFormed ==
  (Accepted /\ last.op = "delete_object" /\ last.req.provider = MINIO) =>
    (last.raised = "" /\ WellFormed(last.out))

C10_DeleteNonEmptyBucket ==
  [][(/\ tempFile' = tempFile
      /\ last'.op = "delete_bucket" /\ ~last'.rejected
      /\ last'.req.provider = MINIO
      /\ last'.req.bucket \in buckets
      /\ ~BucketEmpty(last'.req.bucket, objects))
     => (/\ Values(last'.out, "success") = {FALSE}
         /\ Values(last'.out, "error") = {str_S3Error("BucketNotEmpty")}
         /\ buckets' = buckets
         /\ objects' = objects)]_vars

====
